---- MODULE Spec2Model ----
(***************************************************************************)
(* A model of src/8-life/life.c: the generation-transition function Avery  *)
(* (corner, interior and edge regions of a HEIGHT x WIDTH board, rule      *)
(* B3/S23 through the test (alive | n) == 3) and main, which registers     *)
(* Avery with the harness of liblife and runs the game.                    *)
(*                                                                         *)
(* A board is board[HEIGHT][WIDTH] (life.c:25-28: A[0][WIDTH-1] is next to *)
(* A[1][0]; the loops bound the first index by HEIGHT and the second by    *)
(* WIDTH).  It is modelled as a function from rows to rows of cells, so    *)
(* that b[r][c] is the C expression b[r][c].                               *)
(* WIDTH and HEIGHT are compile-time constants of liblife.h; the model     *)
(* draws them once, in the initial state, and never changes them.          *)
(***************************************************************************)
EXTENDS Integers, Sequences, FiniteSets, TLC

VARIABLES
    WIDTH, HEIGHT,   \* the board's dimensions (liblife.h)
    prv, nxt,        \* the two boards Avery is called with
    layout,          \* where the two boards lie in memory, one relative to the other
    pc,              \* Avery's position: the statement it executes next
    i, j,            \* Avery's loop variables
    n,               \* Avery's n: the neighbour count computed last
    alive,           \* the left operand of the last (alive | n) == 3 test
    val,             \* the value of the last (alive | n) == 3 test
    acc,             \* the array accesses of the last statement: <<array, row, column>>
    wcount,          \* per cell of nxt, the stores made to it during this call
    prv0, nxt0,      \* prv and nxt as they were when the call began
    call, out1,      \* the number of the call, and what the first call left in nxt
                     \* (<<>> during the first call)
    mpc,             \* main's position ("none": Avery is called on its own)
    argc, argv1,     \* main's arguments (argv1 = "" when argc < 2)
    methods,         \* the names registered with add_method
    stderr,          \* what main printed to standard error
    events,          \* the calls main has made and the returns it has seen, in order
    noWindow,        \* the flag run_game was called with
    exitStatus,      \* main's return value
    gen, board0      \* the harness: the generations done, and the board of generation 0
                     \* (<<>> without the harness)

vars == <<WIDTH, HEIGHT, prv, nxt, layout, pc, i, j, n, alive, val, acc, wcount, prv0, nxt0,
          call, out1, mpc, argc, argv1, methods, stderr, events, noWindow,
          exitStatus, gen, board0>>

averyVars == <<prv, nxt, pc, i, j, n, alive, val, acc, wcount, prv0, nxt0>>
mainVars == <<mpc, argc, argv1, methods, stderr, events, noWindow, exitStatus>>

(***************************************************************************)
(* Bounds of the model.                                                    *)
(***************************************************************************)
\* Boards of Spec have 3..MaxDim rows and 3..MaxDim columns.
MaxDim == 4
\* Boards of GameSpec have 3..MaxGameDim rows and 5..MaxGameDim columns.
MaxGameDim == 5
\* The harness runs MaxGen generations.
MaxGen == 2
\* main is started with at most MaxArgc - 1 arguments.
MaxArgc == 3
\* In the layouts in which one board lies behind the other, it begins
\* 0..MaxGap cells behind the other's end.
MaxGap == 1

(***************************************************************************)
(* Boards.                                                                 *)
(***************************************************************************)
Cells(w, h) == (0 .. h - 1) \X (0 .. w - 1)

BoardOf(w, h, live) ==
    [r \in 0 .. h - 1 |-> [c \in 0 .. w - 1 |-> IF <<r, c>> \in live THEN 1 ELSE 0]]

\* b[r][c] for the index pair p = <<r, c>>.
At(b, p) == b[p[1]][p[2]]

\* The cells of the 3 x 3 block whose top-left cell is <<r0, c0>>.
Block(r0, c0) == (r0 .. r0 + 2) \X (c0 .. c0 + 2)

\* The input boards of Spec: every board whose live cells fit in one 3 x 3
\* block (every neighbourhood of every cell, in every configuration; every
\* board at all when the board is 3 x 3), and the board that is all alive.
InputBoards(w, h) ==
    { BoardOf(w, h, live) :
        live \in UNION { SUBSET Block(r0, c0) : r0 \in 0 .. h - 3, c0 \in 0 .. w - 3 }
                 \cup { Cells(w, h) } }

\* What an output buffer may hold before a call: all dead or all alive.
Fills(w, h) == { BoardOf(w, h, {}), BoardOf(w, h, Cells(w, h)) }

\* The layout after the two buffers have swapped roles.
Swapped(l) ==
    IF l[1] = "prv_behind_nxt" THEN <<"nxt_behind_prv", l[2]>>
    ELSE IF l[1] = "nxt_behind_prv" THEN <<"prv_behind_nxt", l[2]>>
    ELSE l

HBlinker(r, c) == { <<r, c - 1>>, <<r, c>>, <<r, c + 1>> }
VBlinker(r, c) == { <<r - 1, c>>, <<r, c>>, <<r + 1, c>> }

\* The centres of the horizontal blinkers that touch no border of the board.
BlinkerCentres(w, h) == (1 .. h - 2) \X (2 .. w - 3)

(***************************************************************************)
(* The rule.                                                               *)
(***************************************************************************)
RECURSIVE BitOr(_, _)
\* C's a | b on non-negative ints.
BitOr(a, b) ==
    IF a = 0 /\ b = 0 THEN 0
    ELSE (IF a % 2 = 1 \/ b % 2 = 1 THEN 1 ELSE 0) + 2 * BitOr(a \div 2, b \div 2)

\* Life with + written for |.
LifePlus(k, cnt) == IF k + cnt = 3 THEN 1 ELSE 0

\* (k | n) == 3, an int that is 1 or 0.
Life(k, cnt) == IF BitOr(k, cnt) = 3 THEN 1 ELSE 0

RECURSIVE SumAt(_, _)
\* b[p1] + b[p2] + ... for the index pairs of the sequence ps.
SumAt(b, ps) == IF ps = <<>> THEN 0 ELSE At(b, Head(ps)) + SumAt(b, Tail(ps))

Range(s) == { s[x] : x \in DOMAIN s }

Reads(ps) == { <<"prv", p[1], p[2]>> : p \in ps }

(***************************************************************************)
(* The index expressions of Avery, region by region.                       *)
(***************************************************************************)
TLNbrs == << <<0, 1>>, <<1, 1>>, <<1, 0>> >>
TLCell == <<0, 0>>

TRNbrs(w) == << <<0, w - 2>>, <<1, w - 2>>, <<1, w - 1>> >>
TRCell(w) == <<0, w - 1>>

\* BLNbrs with the corner itself in place of its right-hand neighbour.
BLNbrsSelf(h) == << <<h - 2, 0>>, <<h - 2, 1>>, <<h - 1, 0>> >>

BLNbrs(h) == << <<h - 2, 0>>, <<h - 2, 1>>, <<h - 1, 1>> >>
\* BLCell with the row the neighbour sum of line 74 is taken for.
BLCellByHeight(w, h) == <<h - 1, 0>>

\* The cell of line 75: nxt[WIDTH-1][0] and prv[WIDTH-1][0].
BLCell(w, h) == <<w - 1, 0>>

BRNbrs(w, h) == << <<h - 2, w - 2>>, <<h - 1, w - 2>>, <<h - 2, w - 1>> >>
BRCell(w, h) == <<h - 1, w - 1>>

InteriorNbrs(r, c) ==
    << <<r - 1, c - 1>>, <<r - 1, c>>, <<r - 1, c + 1>>,
       <<r, c - 1>>, <<r, c + 1>>, <<r + 1, c - 1>>,
       <<r + 1, c>>, <<r + 1, c + 1>> >>

RightNbrs(r, w) ==
    << <<r - 1, w - 1>>, <<r + 1, w - 1>>, <<r + 1, w - 2>>,
       <<r - 1, w - 2>>, <<r, w - 2>> >>

LeftNbrs(r) ==
    << <<r - 1, 1>>, <<r + 1, 1>>, <<r, 1>>, <<r - 1, 0>>, <<r + 1, 0>> >>

BottomNbrs(c, h) ==
    << <<h - 1, c - 1>>, <<h - 1, c + 1>>, <<h - 2, c>>,
       <<h - 2, c - 1>>, <<h - 2, c + 1>> >>

TopNbrs(c) ==
    << <<1, c - 1>>, <<1, c + 1>>, <<1, c>>, <<0, c - 1>>, <<0, c + 1>> >>

InBoard(p, w, h) == p[1] \in 0 .. h - 1 /\ p[2] \in 0 .. w - 1

\* The cell of prv at the address of nxt[cell] in layout l; <<-1, -1>> when
\* that address is outside prv.
StrayTarget(cell, w, h, l) ==
    LET flat == cell[1] * w + cell[2] - h * w - l[2]
    IN  IF l[1] = "prv_behind_nxt" /\ flat >= 0 /\ flat < h * w
          THEN <<flat \div w, flat % w>>
          ELSE <<-1, -1>>

\* The layouts of the two boards at a call that differ in what the call does:
\* the boards apart, or prv beginning gap cells behind the end of nxt where
\* the store of line 75 then lands in prv.
Layouts(w, h) ==
    { <<"apart", 0>> } \cup
    { l \in {"prv_behind_nxt"} \X (0 .. MaxGap) :
        InBoard(StrayTarget(BLCell(w, h), w, h, l), w, h) }

(***************************************************************************)
(* Avery.                                                                  *)
(***************************************************************************)
\* n = sum of prv at nbrs; nxt[cell] = (prv[cell] | n) == 3, all in bounds.
Assign(cell, nbrs) ==
    LET cnt == SumAt(prv, nbrs)
        v == Life(At(prv, cell), cnt)
    IN  /\ n' = cnt
        /\ alive' = At(prv, cell)
        /\ val' = v
        /\ nxt' = [nxt EXCEPT ![cell[1]][cell[2]] = v]
        /\ wcount' = [wcount EXCEPT ![cell[1]][cell[2]] = @ + 1]
        /\ acc' = Reads(Range(nbrs) \cup {cell}) \cup { <<"nxt", cell[1], cell[2]>> }
        /\ UNCHANGED <<prv, prv0, nxt0>>

\* The state at the entry of Avery(p, q).
Enter(p, q) ==
    /\ pc' = "tl"
    /\ prv' = p
    /\ nxt' = q
    /\ prv0' = p
    /\ nxt0' = q
    /\ i' = 0
    /\ j' = 0
    /\ n' = 0
    /\ alive' = 0
    /\ val' = 0
    /\ acc' = {}
    /\ wcount' = BoardOf(WIDTH, HEIGHT, {})

Frame == UNCHANGED <<WIDTH, HEIGHT, layout, call, out1, mainVars, gen, board0>>

CornerTL ==
    /\ pc = "tl"
    /\ Assign(TLCell, TLNbrs)
    /\ pc' = "tr"
    /\ UNCHANGED <<i, j>>
    /\ Frame

CornerTR ==
    /\ pc = "tr"
    /\ Assign(TRCell(WIDTH), TRNbrs(WIDTH))
    /\ pc' = "bl"
    /\ UNCHANGED <<i, j>>
    /\ Frame

\* Lines 74-75 when row WIDTH-1 exists (WIDTH <= HEIGHT).
CornerBL ==
    /\ pc = "bl"
    /\ InBoard(BLCell(WIDTH, HEIGHT), WIDTH, HEIGHT)
    /\ Assign(BLCell(WIDTH, HEIGHT), BLNbrs(HEIGHT))
    /\ pc' = "br"
    /\ UNCHANGED <<i, j>>
    /\ Frame

\* What lines 74-75 access.
BLAccesses ==
    Reads(Range(BLNbrs(HEIGHT)) \cup {BLCell(WIDTH, HEIGHT)})
        \cup { <<"nxt", BLCell(WIDTH, HEIGHT)[1], BLCell(WIDTH, HEIGHT)[2]>> }

\* Lines 74-75 when WIDTH > HEIGHT: prv[WIDTH-1][0] and nxt[WIDTH-1][0] lie
\* behind the end of the arrays.  The read yields any value x; the store of
\* (x | n) == 3 is undefined behaviour, and the build may trap.
CornerBLTrap ==
    /\ pc = "bl"
    /\ ~InBoard(BLCell(WIDTH, HEIGHT), WIDTH, HEIGHT)
    /\ pc' = "crashed"
    /\ acc' = BLAccesses
    /\ UNCHANGED <<prv, nxt, i, j, n, alive, val, wcount, prv0, nxt0>>
    /\ Frame

\* ... or the store lands in memory that is neither board.
CornerBLStrayElsewhere ==
    /\ pc = "bl"
    /\ ~InBoard(BLCell(WIDTH, HEIGHT), WIDTH, HEIGHT)
    /\ ~InBoard(StrayTarget(BLCell(WIDTH, HEIGHT), WIDTH, HEIGHT, layout), WIDTH, HEIGHT)
    /\ \E x \in 0 .. 7 :
         /\ n' = SumAt(prv, BLNbrs(HEIGHT))
         /\ alive' = x
         /\ val' = Life(x, SumAt(prv, BLNbrs(HEIGHT)))
    /\ acc' = BLAccesses
    /\ pc' = "br"
    /\ UNCHANGED <<prv, nxt, i, j, wcount, prv0, nxt0>>
    /\ Frame

\* ... or it lands in prv, which lies behind nxt.
CornerBLStrayIntoPrv ==
    /\ pc = "bl"
    /\ ~InBoard(BLCell(WIDTH, HEIGHT), WIDTH, HEIGHT)
    /\ InBoard(StrayTarget(BLCell(WIDTH, HEIGHT), WIDTH, HEIGHT, layout), WIDTH, HEIGHT)
    /\ \E x \in 0 .. 7 :
         /\ n' = SumAt(prv, BLNbrs(HEIGHT))
         /\ alive' = x
         /\ val' = Life(x, SumAt(prv, BLNbrs(HEIGHT)))
         /\ prv' = [prv EXCEPT
                      ![StrayTarget(BLCell(WIDTH, HEIGHT), WIDTH, HEIGHT, layout)[1]]
                       [StrayTarget(BLCell(WIDTH, HEIGHT), WIDTH, HEIGHT, layout)[2]] =
                        Life(x, SumAt(prv, BLNbrs(HEIGHT)))]
    /\ acc' = BLAccesses
    /\ pc' = "br"
    /\ UNCHANGED <<nxt, i, j, wcount, prv0, nxt0>>
    /\ Frame

\* Lines 77-78, then the entry of the first loop whose condition holds
\* (i = 1 and j = 1 are the loops' initialisations).
CornerBR ==
    /\ pc = "br"
    /\ Assign(BRCell(WIDTH, HEIGHT), BRNbrs(WIDTH, HEIGHT))
    /\ i' = 1
    /\ j' = 1
    /\ pc' = IF 1 < HEIGHT - 1
               THEN (IF 1 < WIDTH - 1 THEN "interior" ELSE "right")
               ELSE (IF 1 < WIDTH - 1 THEN "bottom" ELSE "done")
    /\ Frame

\* One pass of the body of the inner loop, lines 82-86, then ++j, and at
\* the end of the row ++i and j = 1, and at the end of the loop i = 1.
Interior ==
    /\ pc = "interior"
    /\ Assign(<<i, j>>, InteriorNbrs(i, j))
    /\ IF j + 1 < WIDTH - 1
         THEN i' = i /\ j' = j + 1 /\ pc' = "interior"
         ELSE IF i + 1 < HEIGHT - 1
                THEN i' = i + 1 /\ j' = 1 /\ pc' = "interior"
                ELSE i' = 1 /\ j' = j + 1 /\ pc' = "right"
    /\ Frame

\* Lines 91-93.
EdgeRight ==
    /\ pc = "right"
    /\ Assign(<<i, WIDTH - 1>>, RightNbrs(i, WIDTH))
    /\ pc' = "left"
    /\ UNCHANGED <<i, j>>
    /\ Frame

\* Lines 95-97, then ++i, and at the end of the loop j = 1.
EdgeLeft ==
    /\ pc = "left"
    /\ Assign(<<i, 0>>, LeftNbrs(i))
    /\ i' = i + 1
    /\ IF i + 1 < HEIGHT - 1
         THEN j' = j /\ pc' = "right"
         ELSE j' = 1 /\ pc' = IF 1 < WIDTH - 1 THEN "bottom" ELSE "done"
    /\ Frame

\* Lines 101-103.
EdgeBottom ==
    /\ pc = "bottom"
    /\ Assign(<<HEIGHT - 1, j>>, BottomNbrs(j, HEIGHT))
    /\ pc' = "top"
    /\ UNCHANGED <<i, j>>
    /\ Frame

\* Lines 105-107, then ++j.
EdgeTop ==
    /\ pc = "top"
    /\ Assign(<<0, j>>, TopNbrs(j))
    /\ j' = j + 1
    /\ i' = i
    /\ pc' = IF j + 1 < WIDTH - 1 THEN "bottom" ELSE "done"
    /\ Frame

Avery ==
    \/ CornerTL
    \/ CornerTR
    \/ CornerBL
    \/ CornerBLTrap
    \/ CornerBLStrayElsewhere
    \/ CornerBLStrayIntoPrv
    \/ CornerBR
    \/ Interior
    \/ EdgeRight
    \/ EdgeLeft
    \/ EdgeBottom
    \/ EdgeTop

(***************************************************************************)
(* Avery called on its own: once, and once more on an identical copy of    *)
(* the input and another output buffer.                                    *)
(***************************************************************************)
MainIdle ==
    /\ mpc = "none"
    /\ argc = 1
    /\ argv1 = ""
    /\ methods = {}
    /\ stderr = <<>>
    /\ events = <<>>
    /\ noWindow = FALSE
    /\ exitStatus = "running"

Init ==
    /\ WIDTH \in 3 .. MaxDim
    /\ HEIGHT \in 3 .. MaxDim
    /\ prv \in InputBoards(WIDTH, HEIGHT)
    /\ nxt \in Fills(WIDTH, HEIGHT)
    /\ layout \in Layouts(WIDTH, HEIGHT)
    /\ prv0 = prv
    /\ nxt0 = nxt
    /\ pc = "tl"
    /\ i = 0
    /\ j = 0
    /\ n = 0
    /\ alive = 0
    /\ val = 0
    /\ acc = {}
    /\ wcount = BoardOf(WIDTH, HEIGHT, {})
    /\ call = 1
    /\ out1 = <<>>
    /\ MainIdle
    /\ gen = 0
    /\ board0 = <<>>

CallAgain ==
    /\ mpc = "none"
    /\ pc = "done"
    /\ call = 1
    /\ call' = 2
    /\ out1' = nxt
    /\ \E q \in Fills(WIDTH, HEIGHT) : Enter(prv0, q)
    /\ layout' \in Layouts(WIDTH, HEIGHT)
    /\ UNCHANGED <<WIDTH, HEIGHT, mainVars, gen, board0>>

Next == Avery

Spec == Init /\ [][Next]_vars

NextTwice == Avery \/ CallAgain

TwiceSpec == Init /\ [][NextTwice]_vars

(***************************************************************************)
(* main, and the harness it hands Avery to.                                *)
(***************************************************************************)
\* BadArgs without the test of argv[1].
BadArgsCountOnly(ac, a1) == ac > 2

\* argc > 2 || (argc == 2 && 0 != strcmp(argv[1], "-nw"))
BadArgs(ac, a1) == ac > 2 \/ (ac = 2 /\ a1 # "-nw")

\* argc == 2 && 0 == strcmp(argv[1], "-nw")
NoWindowFlag(ac, a1) == ac = 2 /\ a1 = "-nw"

Usage == "Usage: %s [-nw]\n\t-nw  No window\n"

AveryIdle == UNCHANGED <<WIDTH, HEIGHT, layout, averyVars, call, out1, gen, board0>>

MainUsage ==
    /\ mpc = "start"
    /\ BadArgs(argc, argv1)
    /\ stderr' = Append(stderr, Usage)
    /\ mpc' = "usage"
    /\ UNCHANGED <<argc, argv1, methods, events, noWindow, exitStatus>>
    /\ AveryIdle

MainExitFailure ==
    /\ mpc = "usage"
    /\ exitStatus' = "EXIT_FAILURE"
    /\ events' = Append(events, "return")
    /\ mpc' = "exited"
    /\ UNCHANGED <<argc, argv1, methods, stderr, noWindow>>
    /\ AveryIdle

MainAddMethod ==
    /\ mpc = "start"
    /\ ~BadArgs(argc, argv1)
    /\ methods' = methods \cup {"Avery"}
    /\ events' = Append(events, "add_method")
    /\ mpc' = "registered"
    /\ UNCHANGED <<argc, argv1, stderr, noWindow, exitStatus>>
    /\ AveryIdle

MainRunGame ==
    /\ mpc = "registered"
    /\ noWindow' = NoWindowFlag(argc, argv1)
    /\ events' = Append(events, "run_game")
    /\ mpc' = "running"
    /\ UNCHANGED <<argc, argv1, methods, stderr, exitStatus>>
    /\ AveryIdle

\* The harness calls the registered method on its two buffers.
GameCall ==
    /\ mpc = "running"
    /\ pc = "idle"
    /\ gen < MaxGen
    /\ "Avery" \in methods
    /\ Enter(prv, nxt)
    /\ UNCHANGED <<WIDTH, HEIGHT, layout, call, out1, mainVars, gen, board0>>

\* The method has returned: the buffers swap roles.
GameSwap ==
    /\ mpc = "running"
    /\ pc = "done"
    /\ prv' = nxt
    /\ nxt' = prv
    /\ layout' = Swapped(layout)
    /\ gen' = gen + 1
    /\ pc' = "idle"
    /\ UNCHANGED <<WIDTH, HEIGHT, i, j, n, alive, val, acc, wcount, prv0, nxt0,
                   call, out1, mainVars, board0>>

GameReturn ==
    /\ mpc = "running"
    /\ pc = "idle"
    /\ gen = MaxGen
    /\ events' = Append(events, "run_game returned")
    /\ mpc' = "returned"
    /\ UNCHANGED <<argc, argv1, methods, stderr, noWindow, exitStatus>>
    /\ AveryIdle

MainExitSuccess ==
    /\ mpc = "returned"
    /\ exitStatus' = "EXIT_SUCCESS"
    /\ events' = Append(events, "return")
    /\ mpc' = "exited"
    /\ UNCHANGED <<argc, argv1, methods, stderr, noWindow>>
    /\ AveryIdle

GameInit ==
    /\ WIDTH \in 5 .. MaxGameDim
    /\ HEIGHT \in 3 .. MaxGameDim
    /\ \E centre \in BlinkerCentres(WIDTH, HEIGHT) :
         prv = BoardOf(WIDTH, HEIGHT, HBlinker(centre[1], centre[2]))
    /\ nxt \in Fills(WIDTH, HEIGHT)
    /\ layout \in Layouts(WIDTH, HEIGHT) \cup { Swapped(l) : l \in Layouts(WIDTH, HEIGHT) }
    /\ prv0 = prv
    /\ nxt0 = nxt
    /\ pc = "idle"
    /\ i = 0
    /\ j = 0
    /\ n = 0
    /\ alive = 0
    /\ val = 0
    /\ acc = {}
    /\ wcount = BoardOf(WIDTH, HEIGHT, {})
    /\ call = 1
    /\ out1 = <<>>
    /\ mpc = "start"
    /\ argc \in 0 .. MaxArgc
    /\ argv1 \in IF argc < 2 THEN {""} ELSE {"-nw", "-w", "-nwx"}
    /\ methods = {}
    /\ stderr = <<>>
    /\ events = <<>>
    /\ noWindow = FALSE
    /\ exitStatus = "running"
    /\ gen = 0
    /\ board0 = prv

GameNext ==
    \/ MainUsage
    \/ MainExitFailure
    \/ MainAddMethod
    \/ MainRunGame
    \/ GameCall
    \/ Avery
    \/ GameSwap
    \/ GameReturn
    \/ MainExitSuccess

GameSpec == GameInit /\ [][GameNext]_vars

(***************************************************************************)
(* The reference: B3/S23 with the neighbours counted by explicit bounds    *)
(* checks.                                                                 *)
(***************************************************************************)
Offsets == ((-1 .. 1) \X (-1 .. 1)) \ { <<0, 0>> }

RefCount(b, w, h, p) ==
    Cardinality({ d \in Offsets :
                    /\ p[1] + d[1] >= 0 /\ p[1] + d[1] < h
                    /\ p[2] + d[2] >= 0 /\ p[2] + d[2] < w
                    /\ b[p[1] + d[1]][p[2] + d[2]] = 1 })

RefRule(a, cnt) ==
    IF (a = 1 /\ cnt \in {2, 3}) \/ (a = 0 /\ cnt = 3) THEN 1 ELSE 0

RefNext(b, w, h) ==
    [r \in 0 .. h - 1 |->
        [c \in 0 .. w - 1 |-> RefRule(b[r][c], RefCount(b, w, h, <<r, c>>))]]

BottomLeft == <<HEIGHT - 1, 0>>

AccessesInBounds == \A a \in acc : InBoard(<<a[2], a[3]>>, WIDTH, HEIGHT)

(***************************************************************************)
(* The claims.                                                             *)
(***************************************************************************)
\* C1: when Avery(prv, nxt) has returned, every cell of nxt equals the
\* bounds-checked B3/S23 reference applied to the board prv held at the call,
\* whatever WIDTH, HEIGHT >= 3.
C1_AveryEqualsReference ==
    pc = "done" => nxt = RefNext(prv0, WIDTH, HEIGHT)

\* C2: one call of Avery stores to every cell of nxt exactly once, whatever
\* WIDTH, HEIGHT >= 3.
C2_EachCellWrittenOnce ==
    pc = "done" => \A c \in Cells(WIDTH, HEIGHT) : At(wcount, c) = 1

\* C3: every read of prv and every store to nxt that Avery makes has its row
\* index in 0..HEIGHT-1 and its column index in 0..WIDTH-1, whatever WIDTH,
\* HEIGHT >= 3.
C3_AccessesInBounds == AccessesInBounds

\* C4: two calls on equal prv boards leave equal boards in their output
\* buffers, whatever the two buffers held before.
C4_OutputDeterminedByPrv ==
    (call = 2 /\ pc = "done") => nxt = out1

\* C5: a call of Avery on distinct buffers leaves every cell of prv as it was.
C5_PrvUnchanged == prv = prv0

\* C6: under the harness's double buffering, a board whose only live cells
\* are three horizontally adjacent cells away from every border is, after one
\* generation, the three vertically adjacent cells through the same centre,
\* and after two generations the board of generation 0 again.
C6_BlinkerPeriod2 ==
    \A centre \in BlinkerCentres(WIDTH, HEIGHT) :
        (/\ board0 = BoardOf(WIDTH, HEIGHT, HBlinker(centre[1], centre[2]))
         /\ pc = "idle")
        => /\ gen = 1 => prv = BoardOf(WIDTH, HEIGHT, VBlinker(centre[1], centre[2]))
           /\ gen = 2 => prv = board0

\* C7: for alive in {0, 1} and n in 0..8, (alive | n) == 3 is true exactly
\* when B3/S23 makes the cell alive: alive = 1 and n in {2, 3}, or alive = 0
\* and n = 3; so is every test Avery has evaluated on a cell of the board.
C7_BitTrickIsRule ==
    /\ pc = "tl" => \A a \in {0, 1}, cnt \in 0 .. 8 : Life(a, cnt) = RefRule(a, cnt)
    /\ alive \in {0, 1} => (n \in 0 .. 8 /\ val = RefRule(alive, n))

C7_Witness == pc = "interior" /\ alive = 1 /\ n = 2 /\ val = 1

\* C8: with more than one argument, or one that is not "-nw", main prints the
\* usage message to standard error and returns EXIT_FAILURE, registering
\* nothing and running no game; otherwise it registers "Avery", then runs the
\* game with the no-window flag true exactly when the argument is "-nw", and
\* returns EXIT_SUCCESS only after run_game has returned.
C8_MainArguments ==
    LET accepted == argc <= 1 \/ (argc = 2 /\ argv1 = "-nw")
    IN  /\ ~accepted =>
            /\ methods = {}
            /\ pc = "idle" /\ gen = 0
            /\ events \in { <<>>, <<"return">> }
            /\ mpc # "start" => stderr = <<Usage>>
            /\ exitStatus \in {"running", "EXIT_FAILURE"}
            /\ mpc = "exited" <=> exitStatus = "EXIT_FAILURE"
        /\ accepted =>
            /\ stderr = <<>>
            /\ exitStatus \in {"running", "EXIT_SUCCESS"}
            /\ mpc # "start" => (methods = {"Avery"} /\ Head(events) = "add_method")
            /\ (pc # "idle" \/ gen > 0) =>
                   (Len(events) >= 2 /\ events[1] = "add_method" /\ events[2] = "run_game")
            /\ Len(events) >= 2 => noWindow = (argc = 2 /\ argv1 = "-nw")
            /\ exitStatus = "EXIT_SUCCESS" =>
                   /\ events = <<"add_method", "run_game", "run_game returned", "return">>
                   /\ gen = MaxGen

C8_Witness ==
    exitStatus = "EXIT_SUCCESS" /\ noWindow /\ argc = 2 /\ methods = {"Avery"}

\* C9: on a square board Avery stays in bounds, stores to every cell exactly
\* once and leaves in nxt the bounds-checked B3/S23 reference, for every
\* input board.
C9_SquareBoards ==
    WIDTH = HEIGHT =>
        /\ AccessesInBounds
        /\ pc # "crashed"
        /\ pc = "done" =>
              /\ \A c \in Cells(WIDTH, HEIGHT) : At(wcount, c) = 1
              /\ nxt = RefNext(prv0, WIDTH, HEIGHT)

C9_Witness ==
    /\ WIDTH = HEIGHT
    /\ pc = "done"
    /\ At(nxt0, BottomLeft) = 0
    /\ At(nxt, BottomLeft) = 1

\* C10: when WIDTH < HEIGHT the bottom-left corner assignment stores to
\* nxt[WIDTH-1][0], which the left/right-edge loop stores to again; after the
\* call every cell of nxt but (HEIGHT-1, 0) equals the reference, and
\* nxt[HEIGHT-1][0] was never stored to and holds what it held before.
C10_NarrowBoards ==
    WIDTH < HEIGHT =>
        /\ pc = "br" => (<<"nxt", WIDTH - 1, 0>> \in acc /\ wcount[WIDTH - 1][0] = 1)
        /\ pc = "done" =>
              /\ \A c \in Cells(WIDTH, HEIGHT) \ {BottomLeft} :
                    At(nxt, c) = At(RefNext(prv0, WIDTH, HEIGHT), c)
              /\ wcount[WIDTH - 1][0] = 2
              /\ At(wcount, BottomLeft) = 0
              /\ At(nxt, BottomLeft) = At(nxt0, BottomLeft)

C10_Witness ==
    /\ WIDTH < HEIGHT
    /\ pc = "done"
    /\ At(nxt, BottomLeft) = 1
    /\ At(RefNext(prv0, WIDTH, HEIGHT), BottomLeft) = 0

====
